---------------------------- MODULE Spec2Model ----------------------------
(***************************************************************************)
(* Model of the scrape / clean / match pipeline of freelancer-cv-matcher.  *)
(*                                                                         *)
(*   SpecScraper : FreelancerScraper used through `with` (run_scrape.py),  *)
(*                 one step per browser call of scrape_projects.           *)
(*   SpecMatcher : one TfidfMatcher object under fit / rank / match calls. *)
(*   SpecCleaner : clean_projects applied to a raw dataset, and again to   *)
(*                 its own output.                                         *)
(*                                                                         *)
(* Python's None is the string "None".  Text handled character by          *)
(* character (the cleaner) is a sequence of one-character strings.         *)
(***************************************************************************)
EXTENDS Integers, Sequences, FiniteSets, TLC

VARIABLES
    \* ---- FreelancerScraper and the `with` block that uses it
    pc,            \* position of the caller / of scrape_projects
    browser,       \* the Chrome process: "none", "open", "closed"
    driver,        \* self.driver: "None" or "set"
    quits,         \* number of driver.quit() calls so far
    exc,           \* the exception in flight or that ended the run, or "None"
    cat,           \* index of the category being scraped
    page,          \* page of the for loop in _scrape_category
    cards,         \* cards of the current page still to extract
    p,             \* result of the last _extract_project call
    collected,     \* _scrape_category's collected (urls of the Projects)
    all_projects,  \* scrape_projects' all_projects (urls of the Projects)
    rows,          \* what scrape_projects returned (urls), <<>> before
    gets,          \* history: page -> driver.get calls in this category
    outcome,       \* history: page -> how the page ended in this category
    count,         \* history: page -> records collected from the page
    lastDelay,     \* history: _random_delay taken since the last driver.get
    \* ---- TfidfMatcher and the arguments of its calls
    projects_df,   \* the match_text column of the projects table (documents)
    has_text_col,  \* whether the projects table has the match_text column
    profile_text,  \* the query text
    top_k,         \* the top_k argument
    _fitted,       \* self._fitted
    _X,            \* self._X: <<>> for None, <<corpus>> for the matrix of corpus
    vectorizer,    \* self.vectorizer: "unfitted", "fitted" or "stale"
    ret,           \* the last call on the matcher and what it gave
    fitted_corpus, \* history: <<corpus>> of the last fit that completed, or <<>>
    \* ---- clean_projects and the dataset it is applied to
    raw,           \* the raw dataset (rows in file order)
    df,            \* what the last clean_projects call gave: raised, rows
    prev,          \* what the call before it gave
    passes         \* clean_projects calls made so far

scraperVars == <<pc, browser, driver, quits, exc, cat, page, cards, p,
                 collected, all_projects, rows, gets, outcome, count, lastDelay>>

matcherVars == <<projects_df, has_text_col, profile_text, top_k,
                 _fitted, _X, vectorizer, ret, fitted_corpus>>

cleanerVars == <<raw, df, prev, passes>>

vars == <<scraperVars, matcherVars, cleanerVars>>

None == "None"

(***************************************************************************)
(* Inputs of the scraper.                                                  *)
(***************************************************************************)
\* the categories handed to scrape_projects (run_scrape.py hands five)
categories == <<"Python Development", "Web Development">>

\* pages_per_category handed to scrape_projects
pages_per_category == 2

\* most listing cards one results page shows
MaxCards == 1

\* hrefs the listing cards carry
Urls == {"u1", "u2"}

Pages == 1..pages_per_category

(***************************************************************************)
(* A listing card, as _extract_project sees it: what each selector and     *)
(* each read of the card answers.                                          *)
(*   titleSel  : which title selector finds the link                       *)
(*   titleText : title_elem.text - a text, only white space, or a raise    *)
(*   href      : get_attribute("href") - an url, None, or a raise          *)
(*   desc      : which description selector answers; "raises" is a read    *)
(*               that throws inside _safe_find_text                        *)
(*   skills    : tags found and read, none found, or el.text raising       *)
(*   budget    : a currency amount, other text, element missing, raising   *)
(*   rest      : time-left and bids entries: read, or raising              *)
(***************************************************************************)
BaseCard ==
    [titleSel |-> "primary", titleText |-> "text", href |-> "u1",
     desc |-> "primary", skills |-> "tags", budget |-> "amount", rest |-> "ok"]

\* Every card, up to the fields _extract_project never gets to read.
Cards ==
    {[BaseCard EXCEPT !.titleSel = "absent"]}
    \cup {[BaseCard EXCEPT !.titleSel = s, !.titleText = t] :
            s \in {"primary", "fallback"}, t \in {"blank", "raises"}}
    \cup {[BaseCard EXCEPT !.titleSel = s, !.href = h] :
            s \in {"primary", "fallback"}, h \in {None, "raises"}}
    \cup [titleSel : {"primary", "fallback"}, titleText : {"text"}, href : Urls,
          desc : {"primary", "fallback", "absent", "raises"},
          skills : {"tags", "absent", "raises"},
          budget : {"amount", "raw", "absent", "raises"},
          rest : {"ok", "raises"}]

NoProject ==
    [kind |-> "nocall", url |-> None, description |-> None, skills |-> "[]",
     budget |-> None, time_left |-> None, bids_count |-> 0]

\* _safe_find_text: any exception, and a missing element, give the default
_safe_find_text(answer, text) ==
    IF answer \in {"absent", "raises"} THEN None ELSE text

\* _extract_project(card): kind "project" (a Project), "none" (returns None)
\* or "raise" (an exception leaves the function)
_extract_project(card) ==
    IF card.titleSel = "absent"
    THEN [NoProject EXCEPT !.kind = "none"]                       \* 131-137
    ELSE IF card.titleText = "raises" \/ card.href = "raises"
    THEN [NoProject EXCEPT !.kind = "raise"]                      \* 139-140
    ELSE IF card.titleText = "blank" \/ card.href = None
    THEN [NoProject EXCEPT !.kind = "none"]                       \* 141-142
    ELSE IF card.skills = "raises"
    THEN [NoProject EXCEPT !.kind = "raise"]                      \* 155-156
    ELSE [kind        |-> "project",
          url         |-> card.href,
          description |-> _safe_find_text(card.desc, card.desc),
          skills      |-> IF card.skills = "tags" THEN "[tags]" ELSE "[]",
          budget      |-> IF card.budget \in {"absent", "raises"}
                          THEN None ELSE card.budget,
          time_left   |-> _safe_find_text(card.rest, "left"),
          bids_count  |-> IF _safe_find_text(card.rest, "bids") = None
                          THEN 0 ELSE 1]


(***************************************************************************)
(* The scraper: run_scrape.main's `with FreelancerScraper(cfg) as scraper` *)
(* around scrape_projects(categories).                                     *)
(***************************************************************************)
NoPages == [q \in Pages |-> 0]
NoOutcome == [q \in Pages |-> "unvisited"]

ScraperIdle ==
    /\ pc = "idle"
    /\ browser = "none"
    /\ driver = None
    /\ quits = 0
    /\ exc = None
    /\ cat = 0
    /\ page = 0
    /\ cards = 0
    /\ p = NoProject
    /\ collected = <<>>
    /\ all_projects = <<>>
    /\ rows = <<>>
    /\ gets = NoPages
    /\ outcome = NoOutcome
    /\ count = NoPages
    /\ lastDelay = None

\* an exception leaves scrape_projects: the `with` statement runs __exit__
Raise(e) ==
    /\ exc' = e
    /\ pc' = "exit"

\* the for loop of _scrape_category moves on: the next page, or the return
NextPage ==
    IF page < pages_per_category
    THEN /\ page' = page + 1
         /\ pc' = "get"
    ELSE /\ page' = page
         /\ pc' = "cat_return"

\* the de-dup loop of scrape_projects: first occurrence of each url, in order
RECURSIVE Unique(_, _)
Unique(ps, seen) ==
    IF ps = <<>> THEN <<>>
    ELSE IF Head(ps) \in seen THEN Unique(Tail(ps), seen)
    ELSE <<Head(ps)>> \o Unique(Tail(ps), seen \cup {Head(ps)})

\* __enter__, first half: _setup_driver starts Chrome (lines 87-102), or
\* ChromeDriverManager / webdriver.Chrome raises and no browser exists
SetupDriver ==
    /\ pc = "idle"
    /\ UNCHANGED <<matcherVars, cleanerVars>>
    /\ \/ /\ browser' = "open"
          /\ pc' = "setup_script"
          /\ exc' = exc
       \/ /\ browser' = browser
          /\ pc' = "crashed"
          /\ exc' = "WebDriverException"
    /\ UNCHANGED <<driver, quits, cat, page, cards, p, collected, all_projects,
                   rows, gets, outcome, count, lastDelay>>

\* __enter__, second half: driver.execute_script (line 103), then
\* self.driver = driver.  A raise leaves __enter__, so the `with` statement
\* never runs __exit__.
SetupScript ==
    /\ pc = "setup_script"
    /\ UNCHANGED <<matcherVars, cleanerVars>>
    /\ \/ /\ driver' = "set"
          /\ pc' = "body"
          /\ exc' = exc
       \/ /\ driver' = driver
          /\ pc' = "crashed"
          /\ exc' = "WebDriverException"
    /\ UNCHANGED <<browser, quits, cat, page, cards, p, collected, all_projects,
                   rows, gets, outcome, count, lastDelay>>

\* a guard that takes every scraper for an open session
DriverAlwaysInitialized == FALSE

\* `if not self.driver`: no session is open on this scraper
DriverNotInitialized == driver = None

\* scrape_projects is called: in the with body, or by a caller that holds
\* the scraper outside its session (before __enter__, after __exit__)
ScrapeProjects ==
    /\ pc \in {"idle", "body", "done"}
    /\ UNCHANGED <<matcherVars, cleanerVars>>
    /\ IF DriverNotInitialized
       THEN /\ exc' = "ScrapingError"
            /\ pc' = "crashed"
            /\ UNCHANGED <<cat, page, collected, all_projects, gets, outcome, count>>
       ELSE /\ exc' = exc
            /\ all_projects' = <<>>
            /\ cat' = 1
            /\ page' = 1
            /\ collected' = <<>>
            /\ gets' = NoPages
            /\ outcome' = NoOutcome
            /\ count' = NoPages
            /\ pc' = "get"
    /\ UNCHANGED <<browser, driver, quits, cards, p, rows, lastDelay>>

\* self.driver.get(page_url)
Get ==
    /\ pc = "get"
    /\ UNCHANGED <<matcherVars, cleanerVars>>
    /\ gets' = [gets EXCEPT ![page] = @ + 1]
    /\ lastDelay' = None
    /\ \/ /\ pc' = "wait"
          /\ exc' = exc
       \/ Raise("WebDriverException")
    /\ UNCHANGED <<browser, driver, quits, cat, page, cards, p, collected,
                   all_projects, rows, outcome, count>>

\* a timeout that reloads the page it timed out on
OnTimeoutRetry ==
    /\ page' = page
    /\ pc' = "get"

\* `except TimeoutException: continue`
OnTimeout == NextPage

\* WebDriverWait(...).until(presence of a card): found, TimeoutException
\* (caught: continue), or another exception of the browser
Wait ==
    /\ pc = "wait"
    /\ UNCHANGED <<matcherVars, cleanerVars>>
    /\ \/ /\ pc' = "find"
          /\ UNCHANGED <<exc, page, outcome>>
       \/ /\ outcome' = [outcome EXCEPT ![page] = "timeout"]
          /\ OnTimeout
          /\ exc' = exc
       \/ /\ Raise("WebDriverException")
          /\ UNCHANGED <<page, outcome>>
    /\ UNCHANGED <<browser, driver, quits, cat, cards, p, collected,
                   all_projects, rows, gets, count, lastDelay>>

\* cards = self.driver.find_elements(...); `if not cards: continue`
FindCards ==
    /\ pc = "find"
    /\ UNCHANGED <<matcherVars, cleanerVars>>
    /\ \/ \E n \in 1..MaxCards :
             /\ cards' = n
             /\ outcome' = [outcome EXCEPT ![page] = "cards"]
             /\ pc' = "extract"
             /\ UNCHANGED <<exc, page>>
       \/ /\ outcome' = [outcome EXCEPT ![page] = "nocards"]
          /\ NextPage
          /\ UNCHANGED <<exc, cards>>
       \/ /\ Raise("WebDriverException")
          /\ UNCHANGED <<page, cards, outcome>>
    /\ UNCHANGED <<browser, driver, quits, cat, p, collected,
                   all_projects, rows, gets, count, lastDelay>>

\* p = self._extract_project(card, category_name)
Extract ==
    /\ pc = "extract"
    /\ UNCHANGED <<matcherVars, cleanerVars>>
    /\ \E card \in Cards :
          /\ p' = _extract_project(card)
          /\ IF p'.kind = "raise"
             THEN Raise("WebDriverException")
             ELSE /\ pc' = "append"
                  /\ exc' = exc
    /\ UNCHANGED <<browser, driver, quits, cat, page, cards, collected,
                   all_projects, rows, gets, outcome, count, lastDelay>>

\* `if p: collected.append(p)`, then the next card; after the last card
\* `if page < max_pages: self._random_delay(...)`
AppendCard ==
    /\ pc = "append"
    /\ UNCHANGED <<matcherVars, cleanerVars>>
    /\ IF p.kind = "project"
       THEN /\ collected' = Append(collected, p.url)
            /\ count' = [count EXCEPT ![page] = @ + 1]
       ELSE UNCHANGED <<collected, count>>
    /\ p' = NoProject
    /\ cards' = cards - 1
    /\ IF cards' > 0
       THEN /\ pc' = "extract"
            /\ UNCHANGED <<page, lastDelay>>
       ELSE IF page < pages_per_category
       THEN /\ lastDelay' = "page"
            /\ NextPage
       ELSE /\ lastDelay' = lastDelay
            /\ NextPage
    /\ UNCHANGED <<browser, driver, quits, exc, cat, all_projects, rows,
                   gets, outcome>>

\* return collected; all_projects.extend(...); self._random_delay(3, 6);
\* then the next category, or the de-dup and the return of scrape_projects
CategoryDone ==
    /\ pc = "cat_return"
    /\ UNCHANGED <<matcherVars, cleanerVars>>
    /\ all_projects' = all_projects \o collected
    /\ lastDelay' = "category"
    /\ IF cat < Len(categories)
       THEN /\ cat' = cat + 1
            /\ page' = 1
            /\ collected' = <<>>
            /\ gets' = NoPages
            /\ outcome' = NoOutcome
            /\ count' = NoPages
            /\ pc' = "get"
            /\ rows' = rows
       ELSE /\ rows' = Unique(all_projects', {})
            /\ pc' = "exit"
            /\ UNCHANGED <<cat, page, collected, gets, outcome, count>>
    /\ UNCHANGED <<browser, driver, quits, exc, cards, p>>

\* __exit__: quit the driver if there is one; the exception, if any, goes on
Exit ==
    /\ pc = "exit"
    /\ UNCHANGED <<matcherVars, cleanerVars>>
    /\ IF driver # None
       THEN /\ quits' = quits + 1
            /\ browser' = "closed"
            /\ driver' = None
       ELSE UNCHANGED <<quits, browser, driver>>
    /\ pc' = IF exc = None THEN "done" ELSE "crashed"
    /\ UNCHANGED <<exc, cat, page, cards, p, collected, all_projects, rows,
                   gets, outcome, count, lastDelay>>

ScraperNext ==
    \/ SetupDriver
    \/ SetupScript
    \/ ScrapeProjects
    \/ Get
    \/ Wait
    \/ FindCards
    \/ Extract
    \/ AppendCard
    \/ CategoryDone
    \/ Exit


(***************************************************************************)
(* The matcher.  A document (one match_text, or the query) is the set of   *)
(* its tokens; "the" stands for the English stop words, "java" for a word  *)
(* no project uses.                                                        *)
(***************************************************************************)
\* most rows of the projects table
MaxCorpus == 2

\* largest |top_k| tried
MaxTopK == 2

StopWords == {"the"}

Docs == {{}, {"the"}, {"python"}, {"logo"}, {"python", "logo"}}

Queries == {{}, {"python"}, {"logo"}, {"python", "logo"}, {"java"}}

Corpora == UNION {[1..n -> Docs] : n \in 0..MaxCorpus}

NoMatrix == <<>>

NoCall ==
    [op |-> "none", raised |-> None, scores |-> <<>>, order |-> <<>>]

MatcherIdle ==
    /\ _fitted = FALSE
    /\ _X = NoMatrix
    /\ vectorizer = "unfitted"
    /\ ret = NoCall
    /\ fitted_corpus = <<>>

\* the terms TfidfVectorizer(stop_words="english") keeps of a corpus
Vocabulary(corpus) ==
    UNION {corpus[i] : i \in DOMAIN corpus} \ StopWords

\* 10 * (ln((1 + n) / (1 + df)) + 1), rounded: sklearn's smoothed idf of a
\* term found in df of n documents, at [n][df]
IdfTable ==
    <<<<10>>, <<14, 10>>, <<17, 13, 10>>, <<19, 15, 12, 10>>,
      <<21, 17, 14, 12, 10>>>>

Idf(t, corpus) ==
    IdfTable[Len(corpus)][Cardinality({i \in DOMAIN corpus : t \in corpus[i]})]

RECURSIVE SquareSum(_, _)
SquareSum(terms, corpus) ==
    IF terms = {} THEN 0
    ELSE LET t == CHOOSE x \in terms : TRUE
         IN  Idf(t, corpus) * Idf(t, corpus) + SquareSum(terms \ {t}, corpus)

\* cosine_similarity of the tf-idf vectors of query q and document d, as
\* 1000 * cos^2 rounded down (cos >= 0, so the order is that of cos); a
\* vector with no term of the vocabulary scores 0
Cosine(q, d, corpus) ==
    LET V   == Vocabulary(corpus)
        qq  == SquareSum(q \cap V, corpus)
        dd  == SquareSum(d \cap V, corpus)
        dot == SquareSum(q \cap d \cap V, corpus)
    IN  IF qq = 0 \/ dd = 0 THEN 0 ELSE (1000 * dot * dot) \div (qq * dd)

\* fit_transform raises ValueError("empty vocabulary ...") on a corpus that
\* leaves no term
FitRaises(corpus) == Vocabulary(corpus) = {}

\* the guard of rank when it lets every call through
NotFittedNever == FALSE

\* `if not self._fitted or self._X is None`
NotFitted == ~_fitted \/ _X = NoMatrix

\* sims of rank: one score per row of self._X
Sims(q, X) ==
    IF X = NoMatrix THEN <<>>
    ELSE [i \in DOMAIN X[1] |-> Cosine(q, X[1][i], X[1])]

\* the row orders sort_values("score", ascending=False) may give: the
\* default kind is quicksort, which is not stable, so any order that is
\* descending in score
SortOrders(scores) ==
    LET n == Len(scores)
    IN  {o \in [1..n -> 1..n] :
            /\ \A i, j \in 1..n : i # j => o[i] # o[j]
            /\ \A i \in 1..n : \A j \in 1..n :
                  i < j => scores[o[i]] >= scores[o[j]]}

\* DataFrame.head(n): the first n rows; for negative n all but the last -n
head(seq, n) ==
    IF n >= 0
    THEN SubSeq(seq, 1, IF n < Len(seq) THEN n ELSE Len(seq))
    ELSE SubSeq(seq, 1, IF Len(seq) + n > 0 THEN Len(seq) + n ELSE 0)

\* what a failed fit_transform leaves of a vectorizer: its fitted state, or
\* (scikit-learn builds that renew the idf transformer first) a vectorizer
\* whose transform raises NotFittedError
AfterFailedFit ==
    IF vectorizer = "unfitted" THEN {"unfitted"} ELSE {vectorizer, "stale"}

\* fit(corpus), on the table's column or on its first rows
Fit ==
    /\ \E n \in 0..Len(projects_df) :
          LET corpus == SubSeq(projects_df, 1, n)
          IN  IF FitRaises(corpus)
              THEN /\ ret' = [NoCall EXCEPT !.op = "fit", !.raised = "ValueError"]
                   /\ vectorizer' \in AfterFailedFit
                   /\ UNCHANGED <<_fitted, _X, fitted_corpus>>
              ELSE /\ _X' = <<corpus>>
                   /\ fitted_corpus' = <<corpus>>
                   /\ _fitted' = TRUE
                   /\ vectorizer' = "fitted"
                   /\ ret' = [NoCall EXCEPT !.op = "fit"]
    /\ UNCHANGED <<projects_df, has_text_col, profile_text, top_k>>
    /\ UNCHANGED <<scraperVars, cleanerVars>>

\* rank(query_text)
Rank ==
    /\ IF NotFitted
       THEN ret' = [NoCall EXCEPT !.op = "rank", !.raised = "ValueError"]
       ELSE IF vectorizer = "stale"
       THEN ret' = [NoCall EXCEPT !.op = "rank", !.raised = "NotFittedError"]
       ELSE ret' = [NoCall EXCEPT !.op = "rank", !.scores = Sims(profile_text, _X)]
    /\ UNCHANGED <<projects_df, has_text_col, profile_text, top_k,
                   _fitted, _X, vectorizer, fitted_corpus>>
    /\ UNCHANGED <<scraperVars, cleanerVars>>

\* match(projects_df, profile_text, top_k)
Match ==
    /\ IF ~has_text_col
       THEN /\ ret' = [NoCall EXCEPT !.op = "match", !.raised = "ValueError"]
            /\ UNCHANGED <<_fitted, _X, vectorizer, fitted_corpus>>
       ELSE IF FitRaises(projects_df)
       THEN /\ ret' = [NoCall EXCEPT !.op = "match", !.raised = "ValueError"]
            /\ vectorizer' \in AfterFailedFit
            /\ UNCHANGED <<_fitted, _X, fitted_corpus>>
       ELSE /\ _X' = <<projects_df>>
            /\ fitted_corpus' = <<projects_df>>
            /\ _fitted' = TRUE
            /\ vectorizer' = "fitted"
            /\ \E o \in SortOrders(Sims(profile_text, <<projects_df>>)) :
                  ret' = [op |-> "match", raised |-> None,
                          scores |-> Sims(profile_text, <<projects_df>>),
                          order |-> head(o, top_k)]
    /\ UNCHANGED <<projects_df, has_text_col, profile_text, top_k>>
    /\ UNCHANGED <<scraperVars, cleanerVars>>

MatcherNext ==
    \/ Fit
    \/ Rank
    \/ Match

(***************************************************************************)
(* The cleaner.  A text is a sequence of symbols: " " is white space, the  *)
(* punctuation the skills parser reads is one symbol each, and any other   *)
(* symbol is a run of text without them.  NaN is the missing value of a    *)
(* text cell.  A skills cell is a native list, a text, or missing; a       *)
(* bids_count cell is a number, a text, or missing.  A row carries the     *)
(* DataFrame index label it had in the raw dataset.                        *)
(***************************************************************************)
\* most rows of the raw dataset
MaxRows == 2

\* most clean_projects calls in a row
MaxPasses == 2

NaN == <<"NaN">>

Blank == " "

Text(t) == [t |-> "str", items |-> <<>>, s |-> t]
List(xs) == [t |-> "list", items |-> xs, s |-> <<>>]
NoSkills == [t |-> "nan", items |-> <<>>, s |-> <<>>]

Num(n) == [t |-> "int", n |-> n, s |-> <<>>]
NumText(t) == [t |-> "str", n |-> 0, s |-> t]
NoBids == [t |-> "nan", n |-> 0, s |-> <<>>]

RECURSIVE lstrip(_, _)
lstrip(t, c) == IF t # <<>> /\ Head(t) = c THEN lstrip(Tail(t), c) ELSE t

RECURSIVE rstrip(_, _)
rstrip(t, c) ==
    IF t # <<>> /\ t[Len(t)] = c THEN rstrip(SubSeq(t, 1, Len(t) - 1), c) ELSE t

\* str.strip(c); str.strip() is strip(t, Blank)
strip(t, c) == rstrip(lstrip(t, c), c)

\* astype(str): the missing value becomes the text "nan"
astype_str(x) == IF x = NaN THEN <<"nan">> ELSE x

\* lower case of a symbol (case=False of str.contains)
lower(c) ==
    CASE c = "Please" -> "please"
      [] c = "PLEASE" -> "please"
      [] c = "Sign Up or Login to see details" -> "sign up or login to see details"
      [] c = "SIGN UP OR LOGIN TO SEE DETAILS" -> "sign up or login to see details"
      [] c = "Login to see details" -> "login to see details"
      [] OTHER -> c

blocked_phrases ==
    {<<"please", Blank, "sign up or login to see details">>,
     <<"sign up or login to see details">>,
     <<"please", Blank, "login to see details">>}

\* str.contains("|".join(blocked_phrases), case=False)
contains_blocked(t) ==
    LET low == [i \in DOMAIN t |-> lower(t[i])]
    IN  \E ph \in blocked_phrases :
           \E i \in 1..Len(low) :
              /\ i + Len(ph) - 1 <= Len(low)
              /\ SubSeq(low, i, i + Len(ph) - 1) = ph

\* str.split(c): the pieces between the separators, empty pieces included
RECURSIVE split(_, _)
split(t, c) ==
    IF \A i \in DOMAIN t : t[i] # c THEN <<t>>
    ELSE LET k == CHOOSE i \in DOMAIN t :
                     t[i] = c /\ \A j \in 1..(i - 1) : t[j] # c
         IN  <<SubSeq(t, 1, k - 1)>> \o split(SubSeq(t, k + 1, Len(t)), c)

NonBlank(piece) == strip(piece, Blank) # <<>>

\* _ensure_list
_ensure_list(x) ==
    IF x.t = "list" THEN x
    ELSE IF x.t = "nan" THEN List(<<>>)
    ELSE LET t == strip(x.s, Blank)
         IN  IF t # <<>> /\ Head(t) = "[" /\ t[Len(t)] = "]"
             THEN LET parts == SelectSeq(split(SubSeq(t, 2, Len(t) - 1), ","),
                                         NonBlank)
                  IN  List([i \in DOMAIN parts |->
                              strip(strip(strip(parts[i], Blank), "'"), "\"")])
             ELSE LET parts == SelectSeq(split(t, ","), NonBlank)
                  IN  List([i \in DOMAIN parts |-> strip(parts[i], Blank)])

Digit(c) ==
    CASE c = "0" -> 0 [] c = "1" -> 1 [] c = "2" -> 2 [] c = "3" -> 3
      [] OTHER -> 0 - 1

RECURSIVE Decimal(_)
Decimal(t) == IF t = <<>> THEN 0 ELSE 10 * Decimal(SubSeq(t, 1, Len(t) - 1)) + Digit(t[Len(t)])

\* int(text): defined on a non-empty run of digits (white space around it
\* allowed)
IsIntText(t) ==
    LET u == strip(t, Blank)
    IN  u # <<>> /\ \A i \in DOMAIN u : Digit(u[i]) >= 0

\* fillna(0).astype(int) on one cell: the cell raises, or gives a number
IntRaises(b) == b.t = "str" /\ ~IsIntText(b.s)

fillna_astype_int(b) ==
    IF b.t = "nan" THEN Num(0)
    ELSE IF b.t = "int" THEN b
    ELSE Num(Decimal(strip(b.s, Blank)))

fillna(x, v) == IF x = NaN THEN v ELSE x

RECURSIVE join(_)
join(xs) ==
    IF xs = <<>> THEN <<>>
    ELSE IF Len(xs) = 1 THEN xs[1]
    ELSE xs[1] \o <<Blank>> \o join(Tail(xs))

\* rows with a missing value in a required column (dropna(subset=...))
HasNa(r) == r.title = NaN \/ r.description = NaN \/ r.url = NaN \/ r.skills.t = "nan"

Normalized(r) ==
    [r EXCEPT !.title = strip(astype_str(r.title), Blank),
              !.description = strip(astype_str(r.description), Blank),
              !.url = strip(astype_str(r.url), Blank)]

Kept(r) ==
    /\ ~HasNa(r)
    /\ r.title # <<>> /\ r.description # <<>> /\ r.url # <<>>
    /\ ~contains_blocked(r.description)

Finished(r) ==
    LET skills == _ensure_list(r.skills)
        skills_text == join(skills.items)
    IN  [r EXCEPT !.budget = fillna(r.budget, <<"Not specified">>),
                  !.time_left = fillna(r.time_left, <<"Unknown">>),
                  !.bids_count = fillna_astype_int(r.bids_count),
                  !.skills = skills,
                  !.skills_text = skills_text,
                  !.match_text = strip(r.title \o <<Blank>> \o r.description
                                       \o <<Blank>> \o skills_text, Blank)]

\* a cleaner that removes no duplicate
keep_duplicates(rs, seen) == rs

\* a de-duplication that keeps the last row of each url (keep="last")
RECURSIVE keep_last(_, _)
keep_last(rs, seen) ==
    IF rs = <<>> THEN <<>>
    ELSE IF \E i \in 2..Len(rs) : rs[i].url = Head(rs).url
    THEN keep_last(Tail(rs), seen)
    ELSE <<Head(rs)>> \o keep_last(Tail(rs), seen)

\* drop_duplicates(subset=["url"]): the first row of each url
RECURSIVE drop_duplicates(_, _)
drop_duplicates(rs, seen) ==
    IF rs = <<>> THEN <<>>
    ELSE IF Head(rs).url \in seen THEN drop_duplicates(Tail(rs), seen)
    ELSE <<Head(rs)>> \o drop_duplicates(Tail(rs), seen \cup {Head(rs).url})

\* clean_projects(df) on a dataset that has the required columns and the
\* optional ones
clean_projects(rs) ==
    LET norm == [i \in DOMAIN rs |-> Normalized(rs[i])]
        kept == SelectSeq(norm, Kept)
    IN  IF \E i \in DOMAIN kept : IntRaises(kept[i].bids_count)
        THEN [raised |-> "ValueError", rows |-> <<>>]
        ELSE [raised |-> None,
              rows |-> drop_duplicates([i \in DOMAIN kept |-> Finished(kept[i])], {})]

(***************************************************************************)
(* Raw datasets: every row is the base row with one cell changed.          *)
(***************************************************************************)
\* sequences of skills: two plain ones, and one with a leading blank
SkillSeqs == {<<<<"a">>, <<"b">>>>, <<<<Blank, "a">>>>}

\* the pieces of xs with `sep` between them, as one text
RECURSIVE joined(_, _)
joined(xs, sep) ==
    IF xs = <<>> THEN <<>>
    ELSE IF Len(xs) = 1 THEN xs[1]
    ELSE xs[1] \o sep \o joined(Tail(xs), sep)

\* the three forms a skills cell takes: the list the scraper builds, the
\* text str(list) that a CSV round trip leaves, and a comma-separated text
ListForm(xs) == List(xs)
BracketForm(xs) ==
    Text(<<"[">> \o joined([i \in DOMAIN xs |-> <<"'">> \o xs[i] \o <<"'">>],
                           <<",", Blank>>) \o <<"]">>)
BareForm(xs) == Text(joined(xs, <<",", Blank>>))

Forms(xs) == {ListForm(xs), BracketForm(xs), BareForm(xs)}

BaseRow ==
    [index |-> 0, title |-> <<"t">>, description |-> <<"d">>, url |-> <<"u">>,
     skills |-> Text(<<"a", ",", Blank, "b">>), bids_count |-> Num(3),
     budget |-> <<"$10">>, time_left |-> <<"2 days">>,
     skills_text |-> NaN, match_text |-> NaN]

RawRows ==
    {BaseRow}
    \cup {[BaseRow EXCEPT !.title = x] :
            x \in {NaN, <<>>, <<Blank>>, <<Blank, "t", Blank>>, <<"t2">>}}
    \cup {[BaseRow EXCEPT !.description = x] :
            x \in {NaN, <<>>, <<"d", Blank>>,
                   <<"Please", Blank, "Sign Up or Login to see details">>,
                   <<"x", Blank, "SIGN UP OR LOGIN TO SEE DETAILS">>}}
    \cup {[BaseRow EXCEPT !.url = x] :
            x \in {NaN, <<>>, <<Blank, "u">>, <<"v">>}}
    \cup {[BaseRow EXCEPT !.skills = x] :
            x \in {NoSkills, Text(<<>>)}
                    \cup UNION {Forms(xs) : xs \in SkillSeqs}}
    \cup {[BaseRow EXCEPT !.bids_count = x] :
            x \in {NoBids, NumText(<<"1", "2">>), NumText(<<"abc">>)}}
    \cup {[BaseRow EXCEPT !.budget = NaN, !.time_left = NaN]}

\* the datasets of at most MaxRows rows, each row labelled with its position
RawDatasets ==
    UNION {{[i \in 1..n |-> [rs[i] EXCEPT !.index = i]] : rs \in [1..n -> RawRows]} :
             n \in 0..MaxRows}

NoFrame == [raised |-> None, rows |-> <<>>]

CleanerIdle ==
    /\ raw = <<>>
    /\ df = NoFrame
    /\ prev = NoFrame
    /\ passes = 0

\* clean_projects on the raw dataset, then on what clean_projects returned
CleanProjects ==
    /\ passes < MaxPasses
    /\ df.raised = None
    /\ df' = clean_projects(IF passes = 0 THEN raw ELSE df.rows)
    /\ prev' = df
    /\ passes' = passes + 1
    /\ raw' = raw
    /\ UNCHANGED <<scraperVars, matcherVars>>

CleanerNext ==
    \/ CleanProjects

(***************************************************************************)
(* Specifications.                                                         *)
(***************************************************************************)
ScraperInit ==
    /\ ScraperIdle
    /\ MatcherIdle
    /\ CleanerIdle
    /\ projects_df = <<>>
    /\ has_text_col = TRUE
    /\ profile_text = {}
    /\ top_k = 0

SpecScraper == ScraperInit /\ [][ScraperNext]_vars

MatcherInit ==
    /\ ScraperIdle
    /\ MatcherIdle
    /\ CleanerIdle
    /\ projects_df \in Corpora
    /\ has_text_col \in BOOLEAN
    /\ profile_text \in Queries
    /\ top_k \in (0 - MaxTopK)..MaxTopK

SpecMatcher == MatcherInit /\ [][MatcherNext]_vars


CleanerInit ==
    /\ ScraperIdle
    /\ MatcherIdle
    /\ projects_df = <<>>
    /\ has_text_col = TRUE
    /\ profile_text = {}
    /\ top_k = 0
    /\ raw \in RawDatasets
    /\ df = NoFrame
    /\ prev = NoFrame
    /\ passes = 0

SpecCleaner == CleanerInit /\ [][CleanerNext]_vars

(***************************************************************************)
(* Claims about the scraper (SpecScraper).                                 *)
(***************************************************************************)
RECURSIVE SumTo(_, _)
SumTo(f, n) == IF n = 0 THEN 0 ELSE f[n] + SumTo(f, n - 1)

\* the category's records are the tail of all_projects
CategoryReturned ==
    /\ Len(all_projects) >= Len(collected)
    /\ SubSeq(all_projects, Len(all_projects) - Len(collected) + 1,
              Len(all_projects)) = collected

\* C1: under the `with` protocol every run that ends has no browser left
\* open: a browser that was started has been quit exactly once and
\* self.driver is None, whether scraping returned or raised.
C1_DriverTornDownOnEveryExit ==
    pc \in {"done", "crashed"} =>
        /\ browser # "open"
        /\ driver = None
        /\ browser = "closed" => quits = 1

\* C2: a page whose wait for the first card timed out contributes no
\* record, was loaded exactly once, and is followed by the load of the next
\* page (or, after the last page, by the category's return) with no
\* exception raised by the timeout; what the other pages collected is in
\* collected and is what the category returns.
C2_TimeoutSkipsPageOnly ==
    /\ \A q \in Pages : gets[q] <= 1
    /\ Len(collected) = SumTo(count, pages_per_category)
    /\ \A q \in Pages :
          outcome[q] = "timeout" =>
             /\ count[q] = 0
             /\ gets[q] = 1
             /\ q < pages_per_category =>
                   \/ page = q + 1 /\ pc = "get" /\ exc = None
                   \/ gets[q + 1] = 1
             /\ q = pages_per_category =>
                   \/ pc = "cat_return" /\ exc = None
                   \/ CategoryReturned

\* C2 witness: a run that ended normally in which a page of the last
\* category timed out and another page of it delivered a record
C2_Witness ==
    /\ pc = "done"
    /\ \E q \in Pages : outcome[q] = "timeout"
    /\ \E q \in Pages : count[q] > 0
    /\ CategoryReturned

\* C3: no call of _extract_project ends in an exception, whatever the card
\* answers when its fields are located and read.
C3_ExtractNeverRaises ==
    p.kind # "raise"


(***************************************************************************)
(* Claims about the matcher (SpecMatcher).                                 *)
(***************************************************************************)
\* C4: a match that returns gives min(top_k, len(corpus)) rows for
\* top_k >= 0 and no row for top_k <= 0, negative top_k included.
C4_RowCountIsMinTopK ==
    (ret.op = "match" /\ ret.raised = None) =>
        Len(ret.order) =
            IF top_k <= 0 THEN 0
            ELSE IF top_k < Len(projects_df) THEN top_k ELSE Len(projects_df)

\* C5: the rows match returns are in descending score, and rows of equal
\* score are in their corpus order.
C5_SortedAndStable ==
    (ret.op = "match" /\ ret.raised = None) =>
        \A i \in 1..(Len(ret.order) - 1) :
            /\ ret.scores[ret.order[i]] >= ret.scores[ret.order[i + 1]]
            /\ ret.scores[ret.order[i]] = ret.scores[ret.order[i + 1]]
                  => ret.order[i] < ret.order[i + 1]

\* C6: match on a table with the match_text column and no row returns no
\* row and raises nothing.
C6_EmptyCorpusEmptyResult ==
    (ret.op = "match" /\ has_text_col /\ projects_df = <<>>) =>
        /\ ret.raised = None
        /\ ret.order = <<>>

\* C7: a rank issued while no fit has completed raises the not-fitted
\* ValueError, gives no score and finds _fitted and _X as __init__ left
\* them; a rank that returns scores follows a completed fit and returns
\* one score per document of the corpus fitted last.
C7_RankNeedsCompletedFit ==
    ret.op = "rank" =>
        /\ fitted_corpus = <<>> =>
              /\ ret.raised = "ValueError"
              /\ ret.scores = <<>>
              /\ _fitted = FALSE
              /\ _X = NoMatrix
        /\ ret.raised = None =>
              /\ fitted_corpus # <<>>
              /\ Len(ret.scores) = Len(fitted_corpus[1])

\* C7 witness: rank was called on a matcher no fit has completed on, with
\* a full projects table at hand, and raised the not-fitted error
C7_Witness ==
    /\ ret.op = "rank"
    /\ ret.raised = "ValueError"
    /\ fitted_corpus = <<>>
    /\ Len(projects_df) = MaxCorpus


(***************************************************************************)
(* Claims about the cleaner (SpecCleaner).                                 *)
(***************************************************************************)
\* the raw row a cleaned row comes from
Source(r) == raw[r.index]

\* C8: every row of the cleaned dataset comes from a raw row whose title,
\* description and url are present and not blank, and carries that row's
\* own trimmed title, description and url, each non-empty.
C8_RequiredFieldsPresent ==
    (passes = 1 /\ df.raised = None) =>
        \A i \in DOMAIN df.rows :
            LET r == df.rows[i]
            IN  /\ Source(r).title # NaN
                /\ Source(r).description # NaN
                /\ Source(r).url # NaN
                /\ r.title = strip(Source(r).title, Blank) /\ r.title # <<>>
                /\ r.description = strip(Source(r).description, Blank)
                /\ r.description # <<>>
                /\ r.url = strip(Source(r).url, Blank) /\ r.url # <<>>

\* C9: in the dataset clean_projects returns no two rows have the same url,
\* and clean_projects applied to that dataset returns it unchanged: the
\* same rows, in the same order, with the same values.
C9_UniqueUrlsAndIdempotent ==
    /\ (passes >= 1 /\ df.raised = None) =>
          \A i, j \in DOMAIN df.rows : i # j => df.rows[i].url # df.rows[j].url
    /\ passes >= 2 => df = prev

\* C9 witness: clean_projects has run twice on a dataset of two rows that
\* both pass the filters and share their url, and one row is left
C9_Witness ==
    /\ passes = 2
    /\ Len(raw) = 2
    /\ Kept(Normalized(raw[1])) /\ Kept(Normalized(raw[2]))
    /\ raw[1] # [raw[2] EXCEPT !.index = 1]
    /\ Len(df.rows) = 1

\* the integer the claim gives a raw bids_count cell
ClaimedBids(b) ==
    IF b.t = "int" THEN b.n
    ELSE IF b.t = "str" /\ IsIntText(b.s) THEN Decimal(strip(b.s, Blank))
    ELSE 0

\* C10: clean_projects never fails on a bids_count cell, and every cleaned
\* row has an integer bids_count: the raw cell's number, or 0 when the cell
\* is missing or is text that is no number.
C10_BidsCountCoerced ==
    passes = 1 =>
        /\ df.raised = None
        /\ \A i \in DOMAIN df.rows :
              /\ df.rows[i].bids_count.t = "int"
              /\ df.rows[i].bids_count.n = ClaimedBids(Source(df.rows[i]).bids_count)

\* the raw rows that pass the required-field and blocklist filters
Survives(i) == Kept(Normalized(raw[i]))

\* the raw rows that survive and are the first survivor of their trimmed url
FirstOfUrl ==
    {i \in DOMAIN raw :
        /\ Survives(i)
        /\ \A j \in 1..(i - 1) :
              Survives(j) => Normalized(raw[j]).url # Normalized(raw[i]).url}

\* C11: the cleaned dataset holds exactly the surviving raw rows that are
\* the first of their trimmed url in input order, each once, and in the
\* order they had in the input.
C11_FirstOccurrenceKeptInOrder ==
    (passes = 1 /\ df.raised = None) =>
        /\ {df.rows[k].index : k \in DOMAIN df.rows} = FirstOfUrl
        /\ Len(df.rows) = Cardinality(FirstOfUrl)
        /\ \A k, l \in DOMAIN df.rows :
              k < l => df.rows[k].index < df.rows[l].index

\* C11 witness: two surviving rows with the same trimmed url and different
\* titles were cleaned, and the row left is the first one
C11_Witness ==
    /\ passes = 1
    /\ Len(raw) = 2
    /\ Survives(1) /\ Survives(2)
    /\ Normalized(raw[1]).url = Normalized(raw[2]).url
    /\ Normalized(raw[1]).title # Normalized(raw[2]).title
    /\ Len(df.rows) = 1
    /\ df.rows[1].index = 1
    /\ df.rows[1].title = Normalized(raw[1]).title

\* a text with no white space and no quote character at either end
Trimmed(t) ==
    t # <<>> => /\ Head(t) \notin {Blank, "'", "\""}
                /\ t[Len(t)] \notin {Blank, "'", "\""}

\* C12: whichever form of a sequence of skills a surviving row carries,
\* its cleaned skills are what every form of that sequence normalizes to,
\* and each of them is trimmed.
C12_SkillsFormatAgnostic ==
    (passes = 1 /\ df.raised = None) =>
        \A k \in DOMAIN df.rows : \A xs \in SkillSeqs :
            Source(df.rows[k]).skills \in Forms(xs) =>
                /\ \A form \in Forms(xs) :
                      _ensure_list(form).items = df.rows[k].skills.items
                /\ \A i \in DOMAIN df.rows[k].skills.items :
                      Trimmed(df.rows[k].skills.items[i])

\* C13: a page load that is not the first of its category comes right
\* after a page delay, and the first page load of a later category comes
\* right after a category delay.
C13_DelayBetweenPageLoads ==
    pc = "get" =>
        /\ page > 1 => lastDelay = "page"
        /\ (page = 1 /\ cat > 1) => lastDelay = "category"

\* C14: pages are loaded, waited for, searched and collected only on a
\* scraper whose driver is set and whose browser is open; and the step
\* that raises ScrapingError is taken with no driver, loads no page, takes
\* no delay, collects nothing and leaves self.driver None.
C14_SessionUsedOnlyWhileOpen ==
    /\ [](pc \in {"get", "wait", "find", "extract", "append", "cat_return"}
            => (driver = "set" /\ browser = "open"))
    /\ [](exc = "ScrapingError" => (pc = "crashed" /\ driver = None))
    /\ [][exc' = "ScrapingError" =>
            /\ driver = None
            /\ pc \in {"idle", "done"}
            /\ pc' = "crashed"
            /\ UNCHANGED <<browser, driver, quits, gets, lastDelay, cards, p,
                           collected, all_projects, rows, outcome, count>>]_vars

\* C14 witness: scrape_projects was called again after a session that
\* returned records had been closed, and raised ScrapingError.
C14_Witness ==
    /\ pc = "crashed"
    /\ exc = "ScrapingError"
    /\ browser = "closed"
    /\ quits = 1
    /\ driver = None
    /\ rows # <<>>

=============================================================================
